---- MODULE Spec2Model ----
(***************************************************************************)
(* Model of uvicorn's lifespan coordinator, class LifespanOn               *)
(* (src/fastapi_related/uvicorn/lifespan/on.py).                           *)
(*                                                                         *)
(* The coordinator runs on one asyncio event loop: the code between two    *)
(* suspension points of a coroutine is one atomic step.  asyncio.Event.set *)
(* is idempotent, Event.wait returns without suspending when the event is  *)
(* set, and put/get on the unbounded asyncio.Queue suspend only in get on  *)
(* an empty queue.  The application is an external callable: between its   *)
(* own suspension points it may call receive, call send, return or raise.  *)
(***************************************************************************)
EXTENDS Integers, Sequences, FiniteSets, TLC

\* ------------------------------------------------------------------ bounds
\* calls of startup() and shutdown() made on the one coordinator, together
MaxCalls == 3

\* ---------------------------------------------------------------- messages
StartupMsg == "lifespan.startup"
ShutdownMsg == "lifespan.shutdown"
StartupComplete == "lifespan.startup.complete"
StartupFailed == "lifespan.startup.failed"
ShutdownComplete == "lifespan.shutdown.complete"
ShutdownFailed == "lifespan.shutdown.failed"

\* the four types send() asserts on (lines 115-120)
SendTypes == {StartupComplete, StartupFailed, ShutdownComplete, ShutdownFailed}
\* a type outside the four, as an application may pass
BogusType == "lifespan.bogus"
FailedTypes == {StartupFailed, ShutdownFailed}

\* what the application may hand to send(): a type and an optional text
SendMessages ==
    [type : SendTypes \cup {BogusType}, message : {""}]
        \cup [type : FailedTypes, message : {"db unreachable"}]

Modes == {"on", "auto"}

\* log records of self.logger
LogUnsupported == "info: ASGI 'lifespan' protocol appears unsupported."
LogException == "error: Exception in 'lifespan' protocol"
LogStartupFailed == "error: Application startup failed. Exiting."
LogShutdownFailed == "error: Application shutdown failed. Exiting."
LogShutdownComplete == "info: Application shutdown complete."
LogAppMessage == "error: <message text of a failed event>"

STATE_TRANSITION_ERROR == "Got invalid state transition on lifespan protocol."

\* Where a runner task is: <<position in main(), text of the AssertionError
\* of send() that is in flight inside the application>>
Created == <<"created", "">>
Running == <<"running", "">>
Raising(text) == <<"raising", text>>
Returned == <<"returned", "">>
Raised == <<"raised", "">>
RaisingStates == {Raising(""), Raising(STATE_TRANSITION_ERROR)}
Exited == {Returned, Raised}
TaskStates == {Created, Running} \cup RaisingStates \cup Exited

\* Where a call of startup() is, and where a call of shutdown() is
StartupStates == {"waiting", "ok", "failed"}
ShutdownStates == {"waiting", "skipped", "ok", "failed"}

VARIABLES
    startup_event,      \* asyncio.Event, as its flag
    shutdown_event,     \* asyncio.Event, as its flag
    receive_queue,      \* asyncio.Queue, FIFO
    error_occured,
    startup_failed,
    shutdown_failed,
    should_exit,
    lifespan,           \* config.lifespan
    task,               \* the runner tasks: how many are in each state
    su,                 \* the calls of startup(): how many are in each state
    sd,                 \* the calls of shutdown(): how many are in each state
    log,                \* the records emitted through self.logger so far
    accepted,           \* the message types send() has accepted, in order
    rejected            \* whether send() has raised so far

signals == <<startup_event, shutdown_event>>
flags == <<error_occured, startup_failed, shutdown_failed, should_exit>>
history == <<accepted, rejected>>
vars == <<startup_event, shutdown_event, receive_queue, error_occured,
          startup_failed, shutdown_failed, should_exit, lifespan, task, su,
          sd, log, accepted, rejected>>

\* The coroutines of one kind are interchangeable (no code names a task or
\* a caller), so each kind is kept as a count per state.
RECURSIVE Total(_, _)
Total(count, states) ==
    IF states = {} THEN 0
    ELSE LET s == CHOOSE x \in states : TRUE
         IN count[s] + Total(count, states \ {s})

Enter(count, s) == [count EXCEPT ![s] = @ + 1]
Move(count, from, to) == [count EXCEPT ![from] = @ - 1, ![to] = @ + 1]

Accepted == {accepted[k] : k \in DOMAIN accepted}

NumTasks == Total(task, TaskStates)
NumExited == Total(task, Exited)
NumStartups == Total(su, StartupStates)
NumShutdowns == Total(sd, ShutdownStates)
\* main() has called the application in every task that left Created
NumAppCalls == NumTasks - task[Created]

\* ------------------------------------------------------- pure code pieces

\* send(): the type assertion
SendTypeOk(type) == type \in SendTypes

\* send(): a precondition that drops the "not yet set" halves
SendPreNoLatch(type, su_set, sd_set) ==
    IF type \in {StartupComplete, StartupFailed}
    THEN TRUE
    ELSE su_set

\* send(): a precondition that does not ask for the startup event
SendPreNoOrder(type, su_set, sd_set) ==
    IF type \in {StartupComplete, StartupFailed}
    THEN ~su_set /\ ~sd_set
    ELSE ~sd_set

\* send(): the STATE_TRANSITION_ERROR assertions of the branch taken for type
SendPre(type, su_set, sd_set) ==
    IF type \in {StartupComplete, StartupFailed}
    THEN ~su_set /\ ~sd_set
    ELSE su_set /\ ~sd_set

\* send(): the records a failed event logs
SendLog(m) ==
    IF m.type \in FailedTypes /\ m.message # ""
    THEN {LogAppMessage}
    ELSE {}

\* startup(): an outcome test that ignores the mode
StartupFatalAnyMode(sf, eo, mode) == sf \/ eo

\* startup(): an outcome test with "or" in place of "and"
StartupFatalOr(sf, eo, mode) == sf \/ eo \/ mode = "on"

\* startup(): the outcome test
StartupFatal(sf, eo, mode) == sf \/ (eo /\ mode = "on")

\* shutdown(): the outcome test
ShutdownFatal(sdf, eo, mode) == sdf \/ (eo /\ mode = "on")

\* shutdown(): a short circuit that never triggers
ShutdownSkipNever(eo, sf) == FALSE

\* shutdown(): a short circuit that also looks at startup_failed
ShutdownSkipOnFailed(eo, sf) == eo \/ sf

\* shutdown(): the short circuit
ShutdownSkip(eo, sf) == eo

\* main(): a finally block that forgets the shutdown event
MainFinallyStartupOnly(su_set, sd_set) == <<TRUE, sd_set>>

\* main(): the finally block, the two events after it
MainFinally(su_set, sd_set) == <<TRUE, TRUE>>

\* main(): an except block that does not record the error
MainExceptErrorKept(eo) == eo

\* main(): the except block, error_occured after it
MainExceptError(eo) == TRUE

\* main(): an except block that logs the error record under every mode
MainExceptLogNoMode(sf, sdf, mode) ==
    IF sf \/ sdf THEN {} ELSE {LogException}

\* main(): an except block without the early return of line 102
MainExceptLogNoSuppress(sf, sdf, mode) ==
    IF mode = "auto" THEN {LogUnsupported} ELSE {LogException}

\* main(): the records the except block logs
MainExceptLog(sf, sdf, mode) ==
    IF sf \/ sdf THEN {}
    ELSE IF mode = "auto" THEN {LogUnsupported}
    ELSE {LogException}

\* Event.wait(): a wait that never suspends
EventWaitReturnsAlways(flag) == TRUE

\* Event.wait(): the caller goes on at once when the event is set, and is
\* suspended until it is set otherwise
EventWaitReturns(flag) == flag

\* startup(): a task created only when none exists yet
CreateTaskOnce(tasks) ==
    IF \E s \in TaskStates : tasks[s] > 0
    THEN tasks
    ELSE Enter(tasks, Created)

\* startup(): loop.create_task(self.main())
CreateTask(tasks) == Enter(tasks, Created)

\* ---------------------------------------------------------------- initial
Init ==
    /\ startup_event = FALSE
    /\ shutdown_event = FALSE
    /\ receive_queue = <<>>
    /\ error_occured = FALSE
    /\ startup_failed = FALSE
    /\ shutdown_failed = FALSE
    /\ should_exit = FALSE
    /\ lifespan \in Modes
    /\ task = [s \in TaskStates |-> 0]
    /\ su = [s \in StartupStates |-> 0]
    /\ sd = [s \in ShutdownStates |-> 0]
    /\ log = {}
    /\ accepted = <<>>
    /\ rejected = FALSE

\* ------------------------------------------------------------- foreground

\* startup(), lines 62-68: the outcome, for a call that was in state from
\* (or was not yet counted, when it never suspended)
StartupOutcome(from) ==
    LET to == IF StartupFatal(startup_failed, error_occured, lifespan)
              THEN "failed" ELSE "ok"
    IN /\ su' = IF from = "" THEN Enter(su, to) ELSE Move(su, from, to)
       /\ IF to = "failed"
          THEN /\ log' = log \cup {LogStartupFailed}
               /\ should_exit' = TRUE
          ELSE UNCHANGED <<log, should_exit>>

\* startup(), from the call to the first suspension (or to the return, when
\* the startup event is already set)
startup ==
    /\ NumStartups + NumShutdowns < MaxCalls
    /\ task' = CreateTask(task)
    /\ receive_queue' = Append(receive_queue, StartupMsg)
    /\ IF EventWaitReturns(startup_event)
       THEN StartupOutcome("")
       ELSE /\ su' = Enter(su, "waiting")
            /\ UNCHANGED <<log, should_exit>>
    /\ UNCHANGED <<signals, error_occured, startup_failed, shutdown_failed,
                   lifespan, sd, history>>

\* startup() resumed from startup_event.wait()
startup_resume ==
    /\ su["waiting"] > 0
    /\ EventWaitReturns(startup_event)
    /\ StartupOutcome("waiting")
    /\ UNCHANGED <<signals, receive_queue, error_occured, startup_failed,
                   shutdown_failed, lifespan, task, sd, history>>

\* shutdown(), lines 79-85: the outcome
ShutdownOutcome(from) ==
    LET to == IF ShutdownFatal(shutdown_failed, error_occured, lifespan)
              THEN "failed" ELSE "ok"
    IN /\ sd' = IF from = "" THEN Enter(sd, to) ELSE Move(sd, from, to)
       /\ IF to = "failed"
          THEN /\ log' = log \cup {LogShutdownFailed}
               /\ should_exit' = TRUE
          ELSE /\ log' = log \cup {LogShutdownComplete}
               /\ UNCHANGED should_exit

\* shutdown(), from the call to the first suspension or to the return
shutdown ==
    /\ NumStartups + NumShutdowns < MaxCalls
    /\ IF ShutdownSkip(error_occured, startup_failed)
       THEN /\ sd' = Enter(sd, "skipped")
            /\ UNCHANGED <<receive_queue, log, should_exit>>
       ELSE /\ receive_queue' = Append(receive_queue, ShutdownMsg)
            /\ IF EventWaitReturns(shutdown_event)
               THEN ShutdownOutcome("")
               ELSE /\ sd' = Enter(sd, "waiting")
                    /\ UNCHANGED <<log, should_exit>>
    /\ UNCHANGED <<signals, error_occured, startup_failed, shutdown_failed,
                   lifespan, task, su, history>>

\* shutdown() resumed from shutdown_event.wait()
shutdown_resume ==
    /\ sd["waiting"] > 0
    /\ EventWaitReturns(shutdown_event)
    /\ ShutdownOutcome("waiting")
    /\ UNCHANGED <<signals, receive_queue, error_occured, startup_failed,
                   shutdown_failed, lifespan, task, su, history>>

\* ----------------------------------------------------------------- runner

\* main(), lines 88-97: a task starts and calls the application
main_call_app ==
    /\ task[Created] > 0
    /\ task' = Move(task, Created, Running)
    /\ UNCHANGED <<signals, receive_queue, flags, lifespan, su, sd, log,
                   history>>

\* receive(): an application takes the next message of the queue
receive ==
    /\ task[Running] > 0
    /\ receive_queue # <<>>
    /\ receive_queue' = Tail(receive_queue)
    /\ UNCHANGED <<signals, flags, lifespan, task, su, sd, log, history>>

\* send(message): an assertion fails and the AssertionError is raised into
\* the application, or the branch of the message's type runs
send(m) ==
    /\ task[Running] > 0
    /\ IF ~SendTypeOk(m.type) \/ ~SendPre(m.type, startup_event, shutdown_event)
       THEN /\ task' = Move(task, Running,
                            Raising(IF SendTypeOk(m.type)
                                    THEN STATE_TRANSITION_ERROR ELSE ""))
            /\ rejected' = TRUE
            /\ UNCHANGED <<signals, startup_failed, shutdown_failed, log,
                           accepted>>
       ELSE /\ startup_event' =
                (startup_event \/ m.type \in {StartupComplete, StartupFailed})
            /\ shutdown_event' =
                (shutdown_event \/ m.type \in {ShutdownComplete, ShutdownFailed})
            /\ startup_failed' = (startup_failed \/ m.type = StartupFailed)
            /\ shutdown_failed' = (shutdown_failed \/ m.type = ShutdownFailed)
            /\ log' = log \cup SendLog(m)
            /\ accepted' = Append(accepted, m.type)
            /\ UNCHANGED <<task, rejected>>
    /\ UNCHANGED <<receive_queue, error_occured, should_exit, lifespan, su, sd>>

\* the application catches the AssertionError send() raised and goes on
app_catch(s) ==
    /\ task[s] > 0
    /\ task' = Move(task, s, Running)
    /\ UNCHANGED <<signals, receive_queue, flags, lifespan, su, sd, log,
                   history>>

\* main(), lines 98-111: an exception escapes the application (its own, the
\* AssertionError of send() it did not catch, or the CancelledError of a
\* cancelled task, a BaseException): the except block, then the finally block
main_app_raised(s) ==
    /\ task[s] > 0
    /\ error_occured' = MainExceptError(error_occured)
    /\ log' = log \cup MainExceptLog(startup_failed, shutdown_failed, lifespan)
    /\ startup_event' = MainFinally(startup_event, shutdown_event)[1]
    /\ shutdown_event' = MainFinally(startup_event, shutdown_event)[2]
    /\ task' = Move(task, s, Raised)
    /\ UNCHANGED <<receive_queue, startup_failed, shutdown_failed, should_exit,
                   lifespan, su, sd, history>>

\* main(), lines 97 and 109-111: the application returns, the finally block
main_app_returned ==
    /\ task[Running] > 0
    /\ startup_event' = MainFinally(startup_event, shutdown_event)[1]
    /\ shutdown_event' = MainFinally(startup_event, shutdown_event)[2]
    /\ task' = Move(task, Running, Returned)
    /\ UNCHANGED <<receive_queue, flags, lifespan, su, sd, log, history>>

\* ------------------------------------------------------------------- spec
Next ==
    \/ startup
    \/ startup_resume
    \/ shutdown
    \/ shutdown_resume
    \/ main_call_app
    \/ receive
    \/ \E m \in SendMessages : send(m)
    \/ \E s \in RaisingStates : app_catch(s)
    \/ \E s \in RaisingStates \cup {Running} : main_app_raised(s)
    \/ main_app_returned

Spec == Init /\ [][Next]_vars

\* The event loop runs every coroutine that is ready: a caller whose event
\* is set is resumed.
Fairness == WF_vars(startup_resume) /\ WF_vars(shutdown_resume)

FairSpec == Init /\ [][Next]_vars /\ Fairness

\* ------------------------------------------------------------- properties

\* steps, told from the two states of a step
RunnerExits == NumExited' > NumExited
StartupReturns == su'["ok"] + su'["failed"] > su["ok"] + su["failed"]
ShutdownCalled == NumShutdowns' > NumShutdowns
ShutdownEvaluates == sd'["ok"] + sd'["failed"] > sd["ok"] + sd["failed"]
SendRaises == task' = Move(task, Running, Raising(STATE_TRANSITION_ERROR))
NoCallerWaits == su["waiting"] = 0 /\ sd["waiting"] = 0

\* C1: once a runner has left main() (the application returned, or an
\* exception or a cancellation escaped it), both events are set, and every
\* caller suspended in startup() or shutdown() is eventually resumed.
C1_RunnerExitReleasesCallers ==
    /\ [](NumExited > 0 => startup_event /\ shutdown_event)
    /\ (NumExited > 0) ~> NoCallerWaits

\* a runner returned without any message accepted while a startup() and a
\* shutdown() are still suspended: only the finally block set the events
C1_Witness ==
    /\ task[Returned] > 0
    /\ accepted = <<>>
    /\ su["waiting"] > 0
    /\ sd["waiting"] > 0
    /\ startup_event /\ shutdown_event

\* C2: in every reachable state the shutdown event is set only if the
\* startup event is set.
C2_ShutdownImpliesStartup == shutdown_event => startup_event

\* send() accepted a shutdown message and set the shutdown event, with no
\* runner exit involved
C2_Witness ==
    /\ shutdown_event
    /\ NumExited = 0
    /\ Len(accepted) = 2

\* a send() whose message would set an event that is already set raises
\* the state transition AssertionError and changes nothing else
SendOfSetEventRaises ==
    \A m \in SendMessages :
        (/\ send(m)
         /\ \/ m.type \in {StartupComplete, StartupFailed} /\ startup_event
            \/ m.type \in {ShutdownComplete, ShutdownFailed} /\ shutdown_event)
            => /\ SendRaises
               /\ UNCHANGED <<signals, flags, log, accepted>>

\* C3 as stated: no attempt to set an event that is already set is accepted
\* silently, neither in send() nor on the exit path of main(): a runner
\* leaves main() without an assertion failure only if neither event was set.
C3_EverySetOfSetEventFails ==
    [][/\ SendOfSetEventRaises
       /\ RunnerExits => ~startup_event /\ ~shutdown_event]_vars

\* C3 amended: the events latch (once set they stay set, and send() sets an
\* event only from unset); a send() whose message would set an event that
\* is already set raises the state transition AssertionError and changes no
\* event, flag, log or history; the exit path of main() sets both events
\* without any assertion, whether or not they are already set.
C3_LatchedAndSendAsserts ==
    [][/\ startup_event => startup_event'
       /\ shutdown_event => shutdown_event'
       /\ SendOfSetEventRaises
       /\ Len(accepted') > Len(accepted) =>
            LET t == accepted'[Len(accepted')]
            IN IF t \in {StartupComplete, StartupFailed}
               THEN ~startup_event /\ startup_event'
               ELSE ~shutdown_event /\ shutdown_event'
       /\ RunnerExits => startup_event' /\ shutdown_event']_vars

\* the application completed both handshakes, then a further send() raised
\* the state transition error, and a runner left main() all the same
C3_Witness ==
    /\ Len(accepted) = 2
    /\ task[Raising(STATE_TRANSITION_ERROR)] > 0
    /\ NumExited > 0

\* C4 as stated: an application that returns without ever calling send()
\* leaves error_occured true.
C4_ReturnWithoutSendIsError ==
    (NumTasks > 0 /\ NumExited = NumTasks /\ task[Raised] = 0
        /\ accepted = <<>> /\ ~rejected)
        => error_occured

\* C4 amended: when every application call returned normally without ever
\* calling send(), the startup event is set (startup() is not left
\* suspended), error_occured and should_exit are false in both modes and
\* main() and startup() logged nothing; it is an application that raised
\* without a message accepted that leaves error_occured true, with the
\* informational record under "auto" (should_exit false) and the error
\* record under "on".
C4_ReturnWithoutSend ==
    /\ (NumTasks > 0 /\ NumExited = NumTasks /\ task[Raised] = 0
            /\ accepted = <<>> /\ ~rejected)
        => /\ startup_event
           /\ ~error_occured
           /\ ~should_exit
           /\ log \cap {LogUnsupported, LogException, LogStartupFailed} = {}
    /\ (task[Raised] > 0 /\ accepted = <<>>)
        => /\ startup_event
           /\ error_occured
           /\ lifespan = "auto" => LogUnsupported \in log /\ ~should_exit
           /\ lifespan = "on" => LogException \in log

\* the only application call returned without any send() and startup() has
\* returned with success under mode "on"
C4_Witness ==
    /\ NumTasks = 1
    /\ task[Returned] = 1
    /\ accepted = <<>> /\ ~rejected
    /\ su["ok"] = 1
    /\ lifespan = "on"

\* C5 as stated: after startup.failed was accepted and no exception escaped,
\* startup() reports failure and sets should_exit, and a shutdown() called
\* after that returns at once and enqueues nothing.
C5_ShutdownSkippedAfterStartupFailed ==
    [][/\ (StartupReturns /\ startup_failed)
            => su'["failed"] > su["failed"] /\ should_exit'
       /\ (ShutdownCalled /\ startup_failed /\ ~error_occured
                /\ LogStartupFailed \in log)
            => /\ sd' = Enter(sd, "skipped")
               /\ receive_queue' = receive_queue]_vars

\* C5 amended: after startup.failed was accepted and no exception escaped,
\* startup() reports failure and sets should_exit; a shutdown() called after
\* that is not short-circuited, because error_occured is false: it enqueues
\* the shutdown message and goes through the shutdown handshake.
C5_ShutdownRunsAfterStartupFailed ==
    [][/\ (StartupReturns /\ startup_failed)
            => /\ su'["failed"] > su["failed"]
               /\ should_exit'
               /\ LogStartupFailed \in log'
       /\ (ShutdownCalled /\ startup_failed /\ ~error_occured)
            => /\ sd'["skipped"] = sd["skipped"]
               /\ receive_queue' = Append(receive_queue, ShutdownMsg)]_vars

\* startup.failed with a text was accepted, startup() reported the failure,
\* no exception escaped, and a shutdown() is suspended in the handshake with
\* its message enqueued last
C5_Witness ==
    /\ accepted = <<StartupFailed>>
    /\ LogAppMessage \in log
    /\ ~error_occured
    /\ su["failed"] > 0 /\ should_exit
    /\ sd["waiting"] > 0
    /\ receive_queue # <<>>
    /\ receive_queue[Len(receive_queue)] = ShutdownMsg

\* C6 as stated: after any number of startup() calls there is at most one
\* runner task and the application has been called at most once.
C6_AtMostOneRunner == NumTasks <= 1 /\ NumAppCalls <= 1

\* C6 amended: startup() creates a runner task at every call, whether or
\* not one exists: there are as many runner tasks as startup() calls, and
\* the application has been called at most once per startup() call.
C6_OneRunnerPerStartup == NumTasks = NumStartups /\ NumAppCalls <= NumStartups

\* two startup() calls, two runner tasks, the application called twice
C6_Witness == NumStartups = 2 /\ NumTasks = 2 /\ NumAppCalls = 2

\* C7: a shutdown() called while error_occured is true returns at once: no
\* message is enqueued, it does not wait, and the flags, the events, the
\* queue and the log are unchanged.
C7_ShutdownAfterErrorIsNoop ==
    [][(ShutdownCalled /\ error_occured)
        => /\ sd' = Enter(sd, "skipped")
           /\ UNCHANGED <<receive_queue, signals, flags, log>>]_vars

\* a shutdown() returned at once while a startup message is still queued
C7_Witness ==
    /\ sd["skipped"] > 0
    /\ error_occured
    /\ receive_queue = <<StartupMsg>>

\* C8: startup() returns with should_exit set by it exactly when
\* startup_failed or (error_occured and mode "on"); a shutdown() that went
\* through the handshake likewise with shutdown_failed; under mode "auto"
\* should_exit is never true without startup_failed or shutdown_failed.
C8_OutcomeEvaluation ==
    /\ [][/\ StartupReturns =>
                LET fatal == startup_failed \/ (error_occured /\ lifespan = "on")
                IN /\ su'["failed"] > su["failed"] <=> fatal
                   /\ should_exit' <=> (should_exit \/ fatal)
          /\ ShutdownEvaluates =>
                LET fatal == shutdown_failed \/ (error_occured /\ lifespan = "on")
                IN /\ sd'["failed"] > sd["failed"] <=> fatal
                   /\ should_exit' <=> (should_exit \/ fatal)]_vars
    /\ [](lifespan = "auto" /\ should_exit => startup_failed \/ shutdown_failed)

\* under mode "on" an escaped exception alone made a startup() and a
\* shutdown() report failure
C8_Witness ==
    /\ lifespan = "on"
    /\ ~startup_failed /\ ~shutdown_failed
    /\ su["failed"] > 0
    /\ sd["failed"] > 0

\* C9: send() of shutdown.complete or shutdown.failed while the startup
\* event is unset raises the state transition AssertionError, and has set
\* neither the shutdown event nor shutdown_failed.
C9_ShutdownBeforeStartupAsserts ==
    [][/\ \A m \in SendMessages :
            (send(m) /\ m.type \in {ShutdownComplete, ShutdownFailed}
                     /\ ~startup_event)
                => /\ SendRaises
                   /\ UNCHANGED <<shutdown_event, shutdown_failed>>
       /\ (Len(accepted') > Len(accepted)
            /\ accepted'[Len(accepted')] \in {ShutdownComplete, ShutdownFailed})
                => startup_event]_vars

\* a state transition error is in flight while neither event is set: with
\* both events unset only a shutdown message fails those assertions
C9_Witness ==
    /\ task[Raising(STATE_TRANSITION_ERROR)] > 0
    /\ ~startup_event
    /\ ~shutdown_event

\* C10: a send() of startup.complete, or of shutdown.complete, after one of
\* the same type was accepted raises the state transition AssertionError
\* and changes no flag and no event; no type is accepted twice.
C10_SecondCompleteAsserts ==
    /\ [][\A m \in SendMessages :
            (send(m) /\ m.type \in {StartupComplete, ShutdownComplete}
                     /\ m.type \in Accepted)
                => /\ SendRaises
                   /\ UNCHANGED <<signals, flags, accepted>>]_vars
    /\ [](\A k, l \in DOMAIN accepted : accepted[k] = accepted[l] => k = l)

\* the one application had startup.complete accepted and then had a
\* startup message fail the state transition assertions
C10_Witness ==
    /\ NumTasks = 1
    /\ accepted = <<StartupComplete>>
    /\ task[Raising(STATE_TRANSITION_ERROR)] = 1
    /\ ~shutdown_event

\* C11: an exception that escapes the application (the AssertionError of
\* send() and a cancellation included) ends in main(): the step sets
\* error_occured and the task ends; it changes no call of startup() or
\* shutdown() and none of should_exit, startup_failed, shutdown_failed.
C11_EscapedFailureIsCaught ==
    /\ [][task'[Raised] > task[Raised]
            => /\ error_occured'
               /\ NumExited' = NumExited + 1
               /\ UNCHANGED <<su, sd, should_exit, startup_failed,
                              shutdown_failed, receive_queue>>]_vars
    /\ [](task[Raised] > 0 => error_occured)

\* under mode "auto" send() raised, an exception escaped the one
\* application, and startup() returned with success
C11_Witness ==
    /\ lifespan = "auto"
    /\ NumTasks = 1
    /\ task[Raised] = 1
    /\ rejected
    /\ error_occured
    /\ su["ok"] = 1

\* C12: a startup() returns only once the startup event is set, and the
\* event is set only when send() accepted startup.complete or
\* startup.failed or when a runner task has left main().
C12_StartupReturnsAfterHandshake ==
    /\ [][StartupReturns
            => /\ startup_event
               /\ \/ Accepted \cap {StartupComplete, StartupFailed} # {}
                  \/ NumExited > 0]_vars
    /\ [](startup_event
            => \/ Accepted \cap {StartupComplete, StartupFailed} # {}
               \/ NumExited > 0)

\* a startup() was suspended until the application sent startup.complete,
\* and returned while the runner is still inside the application
C12_Witness ==
    /\ NumStartups = 1
    /\ su["ok"] = 1
    /\ NumExited = 0
    /\ accepted = <<StartupComplete>>

\* a run in which the application only did what the happy path does
HappyPath ==
    /\ accepted \in {<<>>, <<StartupComplete>>,
                     <<StartupComplete, ShutdownComplete>>}
    /\ ~rejected
    /\ task[Raised] = 0

\* C13: along the happy path (startup.complete, then shutdown.complete,
\* then return, no failed send and no exception) should_exit, startup_failed,
\* shutdown_failed and error_occured are false in every state, and every
\* startup() and shutdown() that returned reported success.
C13_HappyPath ==
    HappyPath
        => /\ ~should_exit
           /\ ~startup_failed
           /\ ~shutdown_failed
           /\ ~error_occured
           /\ su["failed"] = 0
           /\ sd["failed"] = 0
           /\ sd["skipped"] = 0
           /\ log \subseteq {LogShutdownComplete}

\* the one application took both messages off the queue, had
\* startup.complete and shutdown.complete accepted and returned; startup()
\* and shutdown() returned with success
C13_Witness ==
    /\ HappyPath
    /\ accepted = <<StartupComplete, ShutdownComplete>>
    /\ NumTasks = 1 /\ task[Returned] = 1
    /\ su["ok"] = 1 /\ sd["ok"] = 1
    /\ receive_queue = <<>>
    /\ lifespan = "on"

\* C14: under mode "auto", once an application has raised and send() was
\* never called with success or failure, error_occured is true,
\* startup_failed and should_exit are false, no startup() reported failure,
\* and the log holds the informational record of main() and no record of
\* error severity.
C14_UnsupportedUnderAuto ==
    (lifespan = "auto" /\ accepted = <<>> /\ ~rejected /\ task[Raised] > 0)
        => /\ error_occured
           /\ ~startup_failed
           /\ ~should_exit
           /\ su["failed"] = 0
           /\ LogUnsupported \in log
           /\ log \subseteq {LogUnsupported, LogShutdownComplete}

\* under mode "auto" the one application raised without sending anything and
\* startup() has returned
C14_Witness ==
    /\ lifespan = "auto"
    /\ accepted = <<>> /\ ~rejected
    /\ NumTasks = 1 /\ task[Raised] = 1
    /\ su["ok"] = 1
    /\ log = {LogUnsupported}

\* a step that puts the shutdown message on the queue
ShutdownEnqueued == receive_queue' = Append(receive_queue, ShutdownMsg)

\* C15 as stated: the shutdown message is put on the queue only in a state
\* where the startup event is already set.
C15_ShutdownEnqueuedAfterHandshake ==
    [][ShutdownEnqueued => startup_event]_vars

\* C15: shutdown() puts the shutdown message on the queue exactly when
\* error_occured is false, whatever the startup event; the event is
\* already set at that moment when some startup() has returned before.
C15_ShutdownEnqueueUnguarded ==
    [][/\ ShutdownEnqueued => ShutdownCalled
       /\ ShutdownCalled => (ShutdownEnqueued <=> ~error_occured)
       /\ (ShutdownEnqueued /\ su["ok"] + su["failed"] > 0)
            => startup_event]_vars

\* a shutdown() called while startup() is suspended has put its message on
\* the queue and waits; the startup event is not set
C15_Witness ==
    /\ su["waiting"] > 0
    /\ sd["waiting"] > 0
    /\ ~startup_event
    /\ \E i \in 1..Len(receive_queue) : receive_queue[i] = ShutdownMsg

\* C16 as stated: when send() has raised and the runner has exited,
\* error_occured is true.
C16_ViolationSetsError ==
    (rejected /\ NumTasks = 1 /\ NumExited = 1) => error_occured

\* C16: the AssertionError of send() is raised into the application; when
\* it escapes, main() sets error_occured, and when the application catches
\* it nothing is recorded, so that a runner which exits after a rejected
\* send() with error_occured false has returned normally.
C16_ViolationEscapesOrIsCaught ==
    /\ [][\A s \in RaisingStates :
            task'[s] < task[s]
                => \/ task' = Move(task, s, Raised) /\ error_occured'
                   \/ /\ task' = Move(task, s, Running)
                      /\ UNCHANGED <<signals, flags, log>>]_vars
    /\ []((rejected /\ ~error_occured) => task[Raised] = 0)

\* the first send() of the one application was rejected, the error escaped
\* and the runner has exited
C16_Witness ==
    /\ rejected
    /\ accepted = <<>>
    /\ NumTasks = 1 /\ task[Raised] = 1
    /\ error_occured
    /\ startup_event /\ shutdown_event

\* a step in which the informational record of main() first appears
EmitsUnsupported == LogUnsupported \notin log /\ LogUnsupported \in log'

\* C17 as stated: the informational record is emitted only when no send()
\* was accepted before.
C17_UnsupportedOnlyWithoutSend ==
    [][EmitsUnsupported => accepted = <<>>]_vars

\* C17: the informational record is emitted exactly by an exception that
\* escapes the application under mode "auto" while startup_failed and
\* shutdown_failed are false; no failed message was accepted before, a
\* complete message may have been.
C17_UnsupportedUnlessFailed ==
    [][/\ EmitsUnsupported
            => /\ lifespan = "auto"
               /\ ~startup_failed /\ ~shutdown_failed
               /\ Accepted \cap FailedTypes = {}
               /\ task'[Raised] > task[Raised]
       /\ (/\ task'[Raised] > task[Raised]
           /\ lifespan = "auto"
           /\ ~startup_failed /\ ~shutdown_failed)
            => LogUnsupported \in log']_vars

\* the informational record was logged for an application that had
\* startup.complete accepted before it raised
C17_Witness ==
    /\ LogUnsupported \in log
    /\ accepted = <<StartupComplete>>
    /\ NumTasks = 1 /\ task[Raised] = 1
    /\ ~rejected

\* C18: when an exception escapes the application while startup_failed or
\* shutdown_failed is already true, main() sets error_occured, adds no
\* record to the log, and sets both events.
C18_FailureSuppression ==
    [][(task'[Raised] > task[Raised] /\ (startup_failed \/ shutdown_failed))
            => /\ error_occured'
               /\ log' = log
               /\ startup_event' /\ shutdown_event']_vars

\* the one application had startup.failed accepted and then raised: both
\* events are set and main() has logged nothing
C18_Witness ==
    /\ accepted = <<StartupFailed>>
    /\ startup_failed
    /\ NumTasks = 1 /\ task[Raised] = 1
    /\ error_occured
    /\ startup_event /\ shutdown_event
    /\ log \cap {LogUnsupported, LogException} = {}

\* a step that sets the shutdown event
SetsShutdownEvent == ~shutdown_event /\ shutdown_event'

\* a step in which send() accepts shutdown.complete or shutdown.failed
SendAcceptsShutdown ==
    \E t \in {ShutdownComplete, ShutdownFailed} :
        accepted' = Append(accepted, t)

\* C19 as stated: the shutdown event is set only by send() accepting
\* shutdown.complete or shutdown.failed in a state where the startup event
\* is set and the shutdown event is not.
C19_OnlySendSetsShutdown ==
    [][SetsShutdownEvent => startup_event /\ SendAcceptsShutdown]_vars

\* C19: the shutdown event is set either by send() accepting
\* shutdown.complete or shutdown.failed with the startup event set, or by
\* the exit of a runner task, which sets both events from any state, also
\* from the state where neither is set; no other step sets it.
C19_SendOrRunnerExitSetsShutdown ==
    [][SetsShutdownEvent
        => \/ /\ SendAcceptsShutdown
              /\ startup_event
              /\ ~RunnerExits
           \/ /\ RunnerExits
              /\ startup_event'
              /\ UNCHANGED accepted]_vars

\* the one application returned without sending anything: both events are
\* set and send() accepted nothing
C19_Witness ==
    /\ startup_event /\ shutdown_event
    /\ accepted = <<>> /\ ~rejected
    /\ NumTasks = 1 /\ task[Returned] = 1
    /\ ~error_occured

\* C20: startup_failed implies the startup event is set; shutdown_failed
\* implies the shutdown event and the startup event are set.
C20_FailedFlagImpliesEvent ==
    /\ startup_failed => startup_event
    /\ shutdown_failed => (shutdown_event /\ startup_event)

\* shutdown.failed was accepted after startup.complete while the runner is
\* still inside the application, and a shutdown() has seen the flag
C20_Witness ==
    /\ accepted = <<StartupComplete, ShutdownFailed>>
    /\ shutdown_failed
    /\ startup_event /\ shutdown_event
    /\ NumExited = 0
    /\ sd["failed"] = 1

====
